---- MODULE Spec2Model ----
(***************************************************************************)
(* State-machine model of the HTTP router of src/backend/server.js.        *)
(*                                                                         *)
(* Every route handler is an async function: it runs without interruption  *)
(* from one await to the next.  A request is therefore modelled by one     *)
(* action per segment of its handler: the "Begin" action runs the code up  *)
(* to the first await, and each "...Resolves" action is the moment one     *)
(* awaited db operation takes effect on storage, returns or throws, and    *)
(* the handler continues up to the next await or to its response.          *)
(*                                                                         *)
(* db.js and logger.js are imported by server.js but are not part of the   *)
(* sources at hand; their operations are modelled from the written         *)
(* specification (sections 4 and 7) and from the way server.js uses them.  *)
(***************************************************************************)
EXTENDS Integers, Sequences, FiniteSets, TLC

(* Number of requests received in one run. *)
MaxReqs == 2

(* The handler invocations that can be in flight at the same time; a slot  *)
(* whose handler has ended is released and takes a later request.          *)
Reqs == {1, 2}

(* ---------------------------------------------------------------------- *)
(* Schema names.  A name is a sequence of one-character strings.           *)
(* ---------------------------------------------------------------------- *)
Letters == {"a", "b", "c", "d", "e", "f", "g", "h", "i", "j", "k", "l", "m",
            "n", "o", "p", "q", "r", "s", "t", "u", "v", "w", "x", "y", "z"}

Digits == {"0", "1", "2", "3", "4", "5", "6", "7", "8", "9"}

MaxIdentLen == 63

ReservedNames == {<<"p", "u", "b", "l", "i", "c">>}

NoName == << >>

NameA == <<"a">>

NameB == <<"b">>

QuoteName == <<"a", "'">>

SpaceName == <<"a", " ", "b">>

SemiName == <<"a", ";">>

ValidNames == {NameA, NameB}

UnsafeNames == {QuoteName, SpaceName, SemiName}

(* Names a request may carry in a route parameter (never empty). *)
ParamNames == ValidNames \cup UnsafeNames

(* Names a request may carry in a JSON body (may be missing). *)
BodyNames == ParamNames \cup {NoName}

(* The (sourceDatabase, targetDatabase) bodies of a migrate request: at    *)
(* least one of the two is a well-formed name, or both are missing.        *)
MigrateBodies ==
    {b \in BodyNames \X BodyNames : b[1] \in ValidNames \/ b[2] \in ValidNames}
    \cup {<<NoName, NoName>>}

(* Identifier Validator, spec section 4.1. *)
ValidIdentifier(name) ==
    /\ Len(name) >= 1
    /\ Len(name) <= MaxIdentLen
    /\ name[1] \in Letters
    /\ \A i \in 1..Len(name) : name[i] \in Letters \cup Digits \cup {"_"}
    /\ name \notin ReservedNames

(* ---------------------------------------------------------------------- *)
(* The db operations of db.js.  Each yields the set of its possible        *)
(* outcomes on the given storage state: res is "ok" / TRUE / FALSE or the  *)
(* kind of the error thrown, stmt tells whether a statement reached        *)
(* storage.                                                                *)
(* ---------------------------------------------------------------------- *)
listDatabases ==
    {[res |-> "ok", stmt |-> TRUE], [res |-> "StorageUnavailable", stmt |-> TRUE]}

createDatabase(name, S) ==
    IF ~ValidIdentifier(name)
    THEN {[res |-> "InvalidIdentifier", stmt |-> FALSE, schemas |-> S]}
    ELSE {[res |-> "StorageUnavailable", stmt |-> TRUE, schemas |-> S]}
         \cup (IF name \in S
               THEN {[res |-> "AlreadyExists", stmt |-> TRUE, schemas |-> S]}
               ELSE {[res |-> "ok", stmt |-> TRUE, schemas |-> S \cup {name}]})

databaseExists(name, S) ==
    IF ~ValidIdentifier(name)
    THEN {[res |-> "false", stmt |-> FALSE]}
    ELSE {[res |-> IF name \in S THEN "true" ELSE "false", stmt |-> TRUE],
          [res |-> "StorageUnavailable", stmt |-> TRUE]}

initDatabase(name, S, T) ==
    IF ~ValidIdentifier(name)
    THEN {[res |-> "InvalidIdentifier", stmt |-> FALSE, tables |-> T]}
    ELSE IF name \notin S
    THEN {[res |-> "UnknownSchema", stmt |-> TRUE, tables |-> T]}
    ELSE {[res |-> "ok", stmt |-> TRUE, tables |-> T \cup {name}],
          [res |-> "StorageUnavailable", stmt |-> TRUE, tables |-> T]}

exportDatabase(name, S, T) ==
    IF ~ValidIdentifier(name)
    THEN {[res |-> "InvalidIdentifier", stmt |-> FALSE]}
    ELSE IF name \notin S
    THEN {[res |-> "UnknownSchema", stmt |-> TRUE]}
    ELSE {[res |-> "StorageUnavailable", stmt |-> TRUE]}
         \cup (IF name \in T THEN {[res |-> "ok", stmt |-> TRUE]} ELSE {})

migrateDatabase(source, target, S, T) ==
    IF ~ValidIdentifier(source) \/ ~ValidIdentifier(target)
    THEN {[res |-> "InvalidIdentifier", stmt |-> FALSE]}
    ELSE IF source \notin S \/ target \notin S
    THEN {[res |-> "UnknownSchema", stmt |-> TRUE]}
    ELSE {[res |-> "StorageUnavailable", stmt |-> TRUE]}
         \cup (IF source \in T /\ target \in T
               THEN {[res |-> "ok", stmt |-> TRUE]} ELSE {})

(* Pool Cache, spec section 4.2.  getPoolForDatabase is called without     *)
(* await, so it runs to completion inside the calling segment.  cache maps *)
(* a name to its pool (0: none), made lists the name of every pool object  *)
(* ever constructed, in order; a pool is identified by its index in made.  *)
getPoolForDatabase(name, cache, made) ==
    IF ~ValidIdentifier(name)
    THEN [res |-> "InvalidIdentifier", pool |-> 0, cache |-> cache, made |-> made]
    ELSE IF cache[name] # 0
    THEN [res |-> "ok", pool |-> cache[name], cache |-> cache, made |-> made]
    ELSE [res |-> "ok", pool |-> Len(made) + 1,
          cache |-> [cache EXCEPT ![name] = Len(made) + 1],
          made |-> Append(made, name)]

(* Requests bodies of POST and PUT .../users: whether name and email are   *)
(* present, and the age (0 stands for a missing age).                      *)
MinAge == 1

MaxAge == 150

AgeInputs == {0, 0 - 1, 30, 151}

Bodies ==
    [hasName : {TRUE}, hasEmail : {TRUE}, age : AgeInputs]
    \cup {[hasName |-> FALSE, hasEmail |-> TRUE, age |-> 30],
          [hasName |-> TRUE, hasEmail |-> FALSE, age |-> 30]}

(* pool.query on "<name>".users: the outcomes the handlers tell apart.     *)
(* "unique" is the error with code 23505; a schema without its users table *)
(* makes every statement fail.                                             *)
poolQuery(route, name, T) ==
    IF name \notin T THEN {"error"}
    ELSE {"rows", "error"}
         \cup (IF route \in {"userGet", "userUpdate", "userDelete"} THEN {"empty"} ELSE {})
         \cup (IF route \in {"userCreate", "userUpdate"} THEN {"unique"} ELSE {})

(* What the framework does with a handler whose promise rejects: Express 4 *)
(* leaves the request unanswered, Express 5 hands the error to the error   *)
(* middleware of lines 452-458.                                            *)
RejectionOutcomes == {"unanswered", "errorMiddleware"}

(* A handler rejects only when the logging call of its catch block throws. *)
RejectionsAfter(lo) == IF lo = "ok" THEN {"none"} ELSE RejectionOutcomes

VARIABLES
    schemas,      \* names of the schemas that exist in storage
    tables,       \* names of the schemas whose users table exists
    poolCache,    \* db.js: schema name -> pool (0: no pool cached)
    poolsMade,    \* the name of every pool object constructed, in order
    req,          \* the request each slot is handling, or has handled last
    started,      \* number of requests received so far
    loggerFails   \* whether the logging sink of this run can throw

vars == <<schemas, tables, poolCache, poolsMade, req, started, loggerFails>>

(* Outcomes a logging call of logger.js can have. *)
LogOutcomes == IF loggerFails THEN {"ok", "throws"} ELSE {"ok"}

(* ---------------------------------------------------------------------- *)
(* Requests.                                                               *)
(* ---------------------------------------------------------------------- *)
Idle ==
    [route |-> "none", name |-> NoName, target |-> NoName, pc |-> "idle",
     status |-> 0, responses |-> 0, calls |-> << >>, events |-> << >>,
     logThrew |-> FALSE, err |-> "none", pool |-> 0, late |-> FALSE]

NewReq(route, name, target) ==
    [Idle EXCEPT !.route = route, !.name = name, !.target = target]

(* The handler invokes db operation op; res is what it returns or throws, *)
(* late records an invocation made after the response was sent.           *)
Call(q, op, arg, arg2, res, stmt) ==
    [q EXCEPT !.calls = Append(@, [op |-> op, arg |-> arg, arg2 |-> arg2,
                                   res |-> res, stmt |-> stmt]),
              !.late = @ \/ q.responses > 0]

(* res.status(code).json(...) *)
Respond(q, code) ==
    [q EXCEPT !.status = IF q.responses = 0 THEN code ELSE @,
              !.responses = @ + 1]

(* The handler function returns. *)
Finish(q) == [q EXCEPT !.pc = "done"]

(* The handler's promise rejects: an error was thrown outside try, or      *)
(* inside the catch block.                                                 *)
Reject(q, rej) ==
    IF rej = "errorMiddleware"
    THEN Finish(Respond(q, 500))
    ELSE [q EXCEPT !.pc = "rejected"]

(* A logging call of logger.js: it appends a structured event, or throws. *)
LogEvent(q, operation, success, lo) ==
    IF lo = "ok"
    THEN [q EXCEPT !.events = Append(@, [operation |-> operation, success |-> success])]
    ELSE [q EXCEPT !.logThrew = TRUE]

logDatabaseCreation(q, success, lo) == LogEvent(q, "creation", success, lo)

logDatabaseAccess(q, success, lo) == LogEvent(q, "access", success, lo)

logDatabaseMigration(q, success, lo) == LogEvent(q, "migration", success, lo)

logUserOperation(q, lo) == LogEvent(q, "user", TRUE, lo)

Free(r) == req[r].pc = "idle"

Ended(r) == req[r].pc \in {"done", "rejected"}

(* A new request is taken by the first free slot (the slots are            *)
(* interchangeable), once the handlers that have ended were released.      *)
CanStart(r) ==
    /\ started < MaxReqs
    /\ Free(r)
    /\ \A r2 \in Reqs : ~Ended(r2)
    /\ \A r2 \in Reqs : r2 < r => ~Free(r2)

Storage == <<schemas, tables>>

Pools == <<poolCache, poolsMade>>

InitStorage ==
    /\ schemas \in {{}, {NameA}, {NameA, NameB}}
    /\ tables = schemas
    /\ poolCache = [n \in ValidNames |-> 0]
    /\ poolsMade = << >>
    /\ req = [r \in Reqs |-> Idle]
    /\ started = 0

Init == InitStorage /\ loggerFails = FALSE

InitLoggerFails == InitStorage /\ loggerFails = TRUE

(* ---------------------------------------------------------------------- *)
(* GET /api/databases                                                      *)
(* ---------------------------------------------------------------------- *)
ListBegin(r) ==
    /\ CanStart(r)
    /\ req' = [req EXCEPT ![r] = [NewReq("list", NoName, NoName) EXCEPT !.pc = "awaitList"]]
    /\ started' = started + 1
    /\ UNCHANGED <<Storage, Pools, loggerFails>>

ListCatch(q, err, lo, rej) ==
    LET q1 == logDatabaseAccess([q EXCEPT !.err = err], FALSE, lo)
    IN  IF lo = "ok" THEN Finish(Respond(q1, 500)) ELSE Reject(q1, rej)

ListResolves(r) ==
    /\ req[r].route = "list" /\ req[r].pc = "awaitList"
    /\ \E o \in listDatabases, lo \in LogOutcomes, lo2 \in LogOutcomes :
       \E rej \in RejectionsAfter(lo2) :
         LET q1 == Call(req[r], "listDatabases", NoName, NoName, o.res, o.stmt)
             q2 == logDatabaseAccess(q1, TRUE, lo)
         IN  req' = [req EXCEPT ![r] =
                        IF o.res # "ok" THEN ListCatch(q1, o.res, lo2, rej)
                        ELSE IF lo # "ok" THEN ListCatch(q2, "LogFailure", lo2, rej)
                        ELSE Finish(Respond(q2, 200))]
    /\ UNCHANGED <<Storage, Pools, started, loggerFails>>

(* ---------------------------------------------------------------------- *)
(* POST /api/databases                                                     *)
(* ---------------------------------------------------------------------- *)
CreateBegin(r) ==
    /\ CanStart(r)
    /\ \E name \in BodyNames :
         LET q == NewReq("create", name, NoName)
         IN  req' = [req EXCEPT ![r] =
                        IF name = NoName THEN Finish(Respond(q, 400))
                        ELSE [q EXCEPT !.pc = "awaitCreate"]]
    /\ started' = started + 1
    /\ UNCHANGED <<Storage, Pools, loggerFails>>

CreateCatch(q, err, lo, rej) ==
    LET q1 == logDatabaseCreation([q EXCEPT !.err = err], FALSE, lo)
    IN  IF lo = "ok" THEN Finish(Respond(q1, 400)) ELSE Reject(q1, rej)


(* Mutant: the handler goes on to initDatabase when createDatabase reports *)
(* that the schema already exists.                                         *)
CreateDatabaseResolvesIgnoresExisting(r) ==
    /\ req[r].route = "create" /\ req[r].pc = "awaitCreate"
    /\ \E o \in createDatabase(req[r].name, schemas), lo \in LogOutcomes,
          lo2 \in LogOutcomes :
       \E rej \in RejectionsAfter(lo2) :
         LET q1 == Call(req[r], "createDatabase", req[r].name, NoName, o.res, o.stmt)
             q2 == logDatabaseCreation(q1, TRUE, lo)
         IN  /\ schemas' = o.schemas
             /\ req' = [req EXCEPT ![r] =
                           IF o.res \notin {"ok", "AlreadyExists"} THEN CreateCatch(q1, o.res, lo2, rej)
                           ELSE IF lo # "ok" THEN CreateCatch(q2, "LogFailure", lo2, rej)
                           ELSE [q2 EXCEPT !.pc = "awaitInit"]]
    /\ UNCHANGED <<tables, Pools, started, loggerFails>>

CreateDatabaseResolves(r) ==
    /\ req[r].route = "create" /\ req[r].pc = "awaitCreate"
    /\ \E o \in createDatabase(req[r].name, schemas), lo \in LogOutcomes,
          lo2 \in LogOutcomes :
       \E rej \in RejectionsAfter(lo2) :
         LET q1 == Call(req[r], "createDatabase", req[r].name, NoName, o.res, o.stmt)
             q2 == logDatabaseCreation(q1, TRUE, lo)
         IN  /\ schemas' = o.schemas
             /\ req' = [req EXCEPT ![r] =
                           IF o.res # "ok" THEN CreateCatch(q1, o.res, lo2, rej)
                           ELSE IF lo # "ok" THEN CreateCatch(q2, "LogFailure", lo2, rej)
                           ELSE [q2 EXCEPT !.pc = "awaitInit"]]
    /\ UNCHANGED <<tables, Pools, started, loggerFails>>

CreateInitResolves(r) ==
    /\ req[r].route = "create" /\ req[r].pc = "awaitInit"
    /\ \E o \in initDatabase(req[r].name, schemas, tables), lo2 \in LogOutcomes :
       \E rej \in RejectionsAfter(lo2) :
         LET q1 == Call(req[r], "initDatabase", req[r].name, NoName, o.res, o.stmt)
         IN  /\ tables' = o.tables
             /\ req' = [req EXCEPT ![r] =
                           IF o.res # "ok" THEN CreateCatch(q1, o.res, lo2, rej)
                           ELSE Finish(Respond(q1, 201))]
    /\ UNCHANGED <<schemas, Pools, started, loggerFails>>

(* ---------------------------------------------------------------------- *)
(* GET /api/databases/:name/exists                                         *)
(* ---------------------------------------------------------------------- *)
ExistsBegin(r) ==
    /\ CanStart(r)
    /\ \E name \in ParamNames :
         req' = [req EXCEPT ![r] = [NewReq("exists", name, NoName) EXCEPT !.pc = "awaitExists"]]
    /\ started' = started + 1
    /\ UNCHANGED <<Storage, Pools, loggerFails>>

ExistsCatch(q, err, lo, rej) ==
    LET q1 == logDatabaseAccess([q EXCEPT !.err = err], FALSE, lo)
    IN  IF lo = "ok" THEN Finish(Respond(q1, 500)) ELSE Reject(q1, rej)

ExistsResolves(r) ==
    /\ req[r].route = "exists" /\ req[r].pc = "awaitExists"
    /\ \E o \in databaseExists(req[r].name, schemas), lo \in LogOutcomes,
          lo2 \in LogOutcomes :
       \E rej \in RejectionsAfter(lo2) :
         LET q1 == Call(req[r], "databaseExists", req[r].name, NoName, o.res, o.stmt)
             q2 == logDatabaseAccess(q1, TRUE, lo)
         IN  req' = [req EXCEPT ![r] =
                        IF o.res \notin {"true", "false"} THEN ExistsCatch(q1, o.res, lo2, rej)
                        ELSE IF lo # "ok" THEN ExistsCatch(q2, "LogFailure", lo2, rej)
                        ELSE Finish(Respond(q2, 200))]
    /\ UNCHANGED <<Storage, Pools, started, loggerFails>>

(* ---------------------------------------------------------------------- *)
(* POST /api/databases/:name/initialize                                    *)
(* ---------------------------------------------------------------------- *)
InitializeBegin(r) ==
    /\ CanStart(r)
    /\ \E name \in ParamNames :
         req' = [req EXCEPT ![r] = [NewReq("initialize", name, NoName) EXCEPT !.pc = "awaitExists"]]
    /\ started' = started + 1
    /\ UNCHANGED <<Storage, Pools, loggerFails>>

(* The catch block of lines 140-146: no logging call. *)
InitializeCatch(q, err) == Finish(Respond([q EXCEPT !.err = err], 500))


(* Mutant: the handler initializes without looking at the existence check. *)
InitializeExistsResolvesUnchecked(r) ==
    /\ req[r].route = "initialize" /\ req[r].pc = "awaitExists"
    /\ \E o \in databaseExists(req[r].name, schemas) :
         LET q1 == Call(req[r], "databaseExists", req[r].name, NoName, o.res, o.stmt)
         IN  req' = [req EXCEPT ![r] =
                        IF o.res \notin {"true", "false"} THEN InitializeCatch(q1, o.res)
                        ELSE [q1 EXCEPT !.pc = "awaitInit"]]
    /\ UNCHANGED <<Storage, Pools, started, loggerFails>>

InitializeExistsResolves(r) ==
    /\ req[r].route = "initialize" /\ req[r].pc = "awaitExists"
    /\ \E o \in databaseExists(req[r].name, schemas) :
         LET q1 == Call(req[r], "databaseExists", req[r].name, NoName, o.res, o.stmt)
         IN  req' = [req EXCEPT ![r] =
                        IF o.res \notin {"true", "false"} THEN InitializeCatch(q1, o.res)
                        ELSE IF o.res = "false" THEN Finish(Respond(q1, 404))
                        ELSE [q1 EXCEPT !.pc = "awaitInit"]]
    /\ UNCHANGED <<Storage, Pools, started, loggerFails>>

InitializeInitResolves(r) ==
    /\ req[r].route = "initialize" /\ req[r].pc = "awaitInit"
    /\ \E o \in initDatabase(req[r].name, schemas, tables), lo \in LogOutcomes :
         LET q1 == Call(req[r], "initDatabase", req[r].name, NoName, o.res, o.stmt)
             q2 == logDatabaseAccess(q1, TRUE, lo)
         IN  /\ tables' = o.tables
             /\ req' = [req EXCEPT ![r] =
                           IF o.res # "ok" THEN InitializeCatch(q1, o.res)
                           ELSE IF lo # "ok" THEN InitializeCatch(q2, "LogFailure")
                           ELSE Finish(Respond(q2, 200))]
    /\ UNCHANGED <<schemas, Pools, started, loggerFails>>

(* ---------------------------------------------------------------------- *)
(* GET /api/databases/:name/export                                         *)
(* ---------------------------------------------------------------------- *)
ExportBegin(r) ==
    /\ CanStart(r)
    /\ \E name \in ParamNames :
         req' = [req EXCEPT ![r] = [NewReq("export", name, NoName) EXCEPT !.pc = "awaitExists"]]
    /\ started' = started + 1
    /\ UNCHANGED <<Storage, Pools, loggerFails>>

(* The catch block of lines 166-172: no logging call. *)
ExportCatch(q, err) == Finish(Respond([q EXCEPT !.err = err], 500))

ExportExistsResolves(r) ==
    /\ req[r].route = "export" /\ req[r].pc = "awaitExists"
    /\ \E o \in databaseExists(req[r].name, schemas) :
         LET q1 == Call(req[r], "databaseExists", req[r].name, NoName, o.res, o.stmt)
         IN  req' = [req EXCEPT ![r] =
                        IF o.res \notin {"true", "false"} THEN ExportCatch(q1, o.res)
                        ELSE IF o.res = "false" THEN Finish(Respond(q1, 404))
                        ELSE [q1 EXCEPT !.pc = "awaitExport"]]
    /\ UNCHANGED <<Storage, Pools, started, loggerFails>>

ExportResolves(r) ==
    /\ req[r].route = "export" /\ req[r].pc = "awaitExport"
    /\ \E o \in exportDatabase(req[r].name, schemas, tables), lo \in LogOutcomes :
         LET q1 == Call(req[r], "exportDatabase", req[r].name, NoName, o.res, o.stmt)
             q2 == logDatabaseAccess(q1, TRUE, lo)
         IN  req' = [req EXCEPT ![r] =
                        IF o.res # "ok" THEN ExportCatch(q1, o.res)
                        ELSE IF lo # "ok" THEN ExportCatch(q2, "LogFailure")
                        ELSE Finish(Respond(q2, 200))]
    /\ UNCHANGED <<Storage, Pools, started, loggerFails>>

(* ---------------------------------------------------------------------- *)
(* POST /api/databases/migrate                                             *)
(* ---------------------------------------------------------------------- *)
MigrateBegin(r) ==
    /\ CanStart(r)
    /\ \E body \in MigrateBodies :
         LET source == body[1]
             target == body[2]
             q == NewReq("migrate", source, target)
         IN  req' = [req EXCEPT ![r] =
                        IF source = NoName \/ target = NoName THEN Finish(Respond(q, 400))
                        ELSE [q EXCEPT !.pc = "awaitExists"]]
    /\ started' = started + 1
    /\ UNCHANGED <<Storage, Pools, loggerFails>>

MigrateCatch(q, err, lo, rej) ==
    LET q1 == logDatabaseMigration([q EXCEPT !.err = err], FALSE, lo)
    IN  IF lo = "ok" THEN Finish(Respond(q1, 500)) ELSE Reject(q1, rej)


(* Mutant: the 404 of the source check is sent without return. *)
MigrateSourceResolvesNoReturn(r) ==
    /\ req[r].route = "migrate" /\ req[r].pc = "awaitExists"
    /\ \E o \in databaseExists(req[r].name, schemas), lo2 \in LogOutcomes :
       \E rej \in RejectionsAfter(lo2) :
         LET q1 == Call(req[r], "databaseExists", req[r].name, NoName, o.res, o.stmt)
         IN  req' = [req EXCEPT ![r] =
                        IF o.res \notin {"true", "false"} THEN MigrateCatch(q1, o.res, lo2, rej)
                        ELSE IF o.res = "false"
                        THEN [Respond(q1, 404) EXCEPT !.pc = "awaitExistsTarget"]
                        ELSE [q1 EXCEPT !.pc = "awaitExistsTarget"]]
    /\ UNCHANGED <<Storage, Pools, started, loggerFails>>

MigrateSourceResolves(r) ==
    /\ req[r].route = "migrate" /\ req[r].pc = "awaitExists"
    /\ \E o \in databaseExists(req[r].name, schemas), lo2 \in LogOutcomes :
       \E rej \in RejectionsAfter(lo2) :
         LET q1 == Call(req[r], "databaseExists", req[r].name, NoName, o.res, o.stmt)
         IN  req' = [req EXCEPT ![r] =
                        IF o.res \notin {"true", "false"} THEN MigrateCatch(q1, o.res, lo2, rej)
                        ELSE IF o.res = "false" THEN Finish(Respond(q1, 404))
                        ELSE [q1 EXCEPT !.pc = "awaitExistsTarget"]]
    /\ UNCHANGED <<Storage, Pools, started, loggerFails>>


(* Mutant: the handler migrates without looking at the target check. *)
MigrateTargetResolvesUnchecked(r) ==
    /\ req[r].route = "migrate" /\ req[r].pc = "awaitExistsTarget"
    /\ \E o \in databaseExists(req[r].target, schemas), lo2 \in LogOutcomes :
       \E rej \in RejectionsAfter(lo2) :
         LET q1 == Call(req[r], "databaseExists", req[r].target, NoName, o.res, o.stmt)
         IN  req' = [req EXCEPT ![r] =
                        IF o.res \notin {"true", "false"} THEN MigrateCatch(q1, o.res, lo2, rej)
                        ELSE [q1 EXCEPT !.pc = "awaitMigrate"]]
    /\ UNCHANGED <<Storage, Pools, started, loggerFails>>

MigrateTargetResolves(r) ==
    /\ req[r].route = "migrate" /\ req[r].pc = "awaitExistsTarget"
    /\ \E o \in databaseExists(req[r].target, schemas), lo2 \in LogOutcomes :
       \E rej \in RejectionsAfter(lo2) :
         LET q1 == Call(req[r], "databaseExists", req[r].target, NoName, o.res, o.stmt)
         IN  req' = [req EXCEPT ![r] =
                        IF o.res \notin {"true", "false"} THEN MigrateCatch(q1, o.res, lo2, rej)
                        ELSE IF o.res = "false" THEN Finish(Respond(q1, 404))
                        ELSE [q1 EXCEPT !.pc = "awaitMigrate"]]
    /\ UNCHANGED <<Storage, Pools, started, loggerFails>>

MigrateResolves(r) ==
    /\ req[r].route = "migrate" /\ req[r].pc = "awaitMigrate"
    /\ \E o \in migrateDatabase(req[r].name, req[r].target, schemas, tables),
          lo \in LogOutcomes, lo2 \in LogOutcomes :
       \E rej \in RejectionsAfter(lo2) :
         LET q1 == Call(req[r], "migrateDatabase", req[r].name, req[r].target, o.res, o.stmt)
             q2 == logDatabaseMigration(q1, TRUE, lo)
         IN  req' = [req EXCEPT ![r] =
                        IF o.res # "ok" THEN MigrateCatch(q1, o.res, lo2, rej)
                        ELSE IF lo # "ok" THEN MigrateCatch(q2, "LogFailure", lo2, rej)
                        ELSE Finish(Respond(q2, 200))]
    /\ UNCHANGED <<Storage, Pools, started, loggerFails>>

(* ---------------------------------------------------------------------- *)
(* The user routes.  The five handlers share the text of their schema      *)
(* check (databaseExists, 404, getPoolForDatabase, pool.query) and of      *)
(* their catch blocks.                                                     *)
(* ---------------------------------------------------------------------- *)
UserBegin(r, route) ==
    /\ CanStart(r)
    /\ \E name \in ParamNames :
         req' = [req EXCEPT ![r] = [NewReq(route, name, NoName) EXCEPT !.pc = "awaitExists"]]
    /\ started' = started + 1
    /\ UNCHANGED <<Storage, Pools, loggerFails>>

(* The validation of lines 306-316: name and email are required, an age   *)
(* that is given lies between 1 and 150.                                   *)
BodyRejected(body) ==
    \/ ~body.hasName \/ ~body.hasEmail
    \/ body.age # 0 /\ (body.age < MinAge \/ body.age > MaxAge)

(* The handlers of POST and PUT validate the body first. *)
UserBeginValidated(r, route) ==
    /\ CanStart(r)
    /\ \E name \in ParamNames, rejected \in {BodyRejected(body) : body \in Bodies} :
         LET q == NewReq(route, name, NoName)
         IN  req' = [req EXCEPT ![r] =
                        IF rejected THEN Finish(Respond(q, 400))
                        ELSE [q EXCEPT !.pc = "awaitExists"]]
    /\ started' = started + 1
    /\ UNCHANGED <<Storage, Pools, loggerFails>>

(* catch: 400 for a unique violation (POST and PUT only), else 500. *)
UserCatch(q, err) ==
    IF err = "unique" /\ q.route \in {"userCreate", "userUpdate"}
    THEN Finish(Respond([q EXCEPT !.err = err], 400))
    ELSE Finish(Respond([q EXCEPT !.err = err], 500))


(* Mutant: the 404 of the schema check is sent without return. *)
UserExistsResolvesNoReturn(r, route) ==
    /\ req[r].route = route /\ req[r].pc = "awaitExists"
    /\ \E o \in databaseExists(req[r].name, schemas) :
         LET q1 == Call(req[r], "databaseExists", req[r].name, NoName, o.res, o.stmt)
             q1r == IF o.res = "false" THEN Respond(q1, 404) ELSE q1
             g  == getPoolForDatabase(req[r].name, poolCache, poolsMade)
             q2 == [Call(q1r, "getPoolForDatabase", req[r].name, NoName, g.res, FALSE)
                       EXCEPT !.pool = g.pool]
         IN  IF o.res \notin {"true", "false"}
             THEN /\ req' = [req EXCEPT ![r] = UserCatch(q1, o.res)]
                  /\ UNCHANGED Pools
             ELSE /\ req' = [req EXCEPT ![r] =
                                IF g.res # "ok" THEN UserCatch(q2, g.res)
                                ELSE [q2 EXCEPT !.pc = "awaitQuery"]]
                  /\ poolCache' = g.cache
                  /\ poolsMade' = g.made
    /\ UNCHANGED <<Storage, started, loggerFails>>

(* Mutant: the handler builds a pool of its own instead of asking the      *)
(* cache for the shared one.                                               *)
UserExistsResolvesOwnPool(r, route) ==
    /\ req[r].route = route /\ req[r].pc = "awaitExists"
    /\ \E o \in databaseExists(req[r].name, schemas) :
         LET q1 == Call(req[r], "databaseExists", req[r].name, NoName, o.res, o.stmt)
             g  == getPoolForDatabase(req[r].name, [n \in ValidNames |-> 0], poolsMade)
             q2 == [Call(q1, "getPoolForDatabase", req[r].name, NoName, g.res, FALSE)
                       EXCEPT !.pool = g.pool]
         IN  IF o.res \notin {"true", "false"}
             THEN /\ req' = [req EXCEPT ![r] = UserCatch(q1, o.res)]
                  /\ UNCHANGED Pools
             ELSE IF o.res = "false"
             THEN /\ req' = [req EXCEPT ![r] = Finish(Respond(q1, 404))]
                  /\ UNCHANGED Pools
             ELSE /\ req' = [req EXCEPT ![r] =
                                IF g.res # "ok" THEN UserCatch(q2, g.res)
                                ELSE [q2 EXCEPT !.pc = "awaitQuery"]]
                  /\ poolCache' = poolCache
                  /\ poolsMade' = g.made
    /\ UNCHANGED <<Storage, started, loggerFails>>

(* await databaseExists(dbName) returns; on true the handler takes the     *)
(* pool and issues its statement.                                          *)
UserExistsResolves(r, route) ==
    /\ req[r].route = route /\ req[r].pc = "awaitExists"
    /\ \E o \in databaseExists(req[r].name, schemas) :
         LET q1 == Call(req[r], "databaseExists", req[r].name, NoName, o.res, o.stmt)
             g  == getPoolForDatabase(req[r].name, poolCache, poolsMade)
             q2 == [Call(q1, "getPoolForDatabase", req[r].name, NoName, g.res, FALSE)
                       EXCEPT !.pool = g.pool]
         IN  IF o.res \notin {"true", "false"}
             THEN /\ req' = [req EXCEPT ![r] = UserCatch(q1, o.res)]
                  /\ UNCHANGED Pools
             ELSE IF o.res = "false"
             THEN /\ req' = [req EXCEPT ![r] = Finish(Respond(q1, 404))]
                  /\ UNCHANGED Pools
             ELSE /\ req' = [req EXCEPT ![r] =
                                IF g.res # "ok" THEN UserCatch(q2, g.res)
                                ELSE [q2 EXCEPT !.pc = "awaitQuery"]]
                  /\ poolCache' = g.cache
                  /\ poolsMade' = g.made
    /\ UNCHANGED <<Storage, started, loggerFails>>

(* await pool.query(...) returns or throws. *)
UserQueryResolves(r, route) ==
    /\ req[r].route = route /\ req[r].pc = "awaitQuery"
    /\ \E res \in poolQuery(route, req[r].name, tables), lo \in LogOutcomes :
         LET q1 == Call(req[r], "pool.query", req[r].name, NoName, res, TRUE)
             q2 == logUserOperation(q1, lo)
         IN  req' = [req EXCEPT ![r] =
                        IF res \in {"error", "unique"} THEN UserCatch(q1, res)
                        ELSE IF res = "empty" THEN Finish(Respond(q1, 404))
                        ELSE IF route = "userGet" THEN Finish(Respond(q1, 200))
                        ELSE IF lo # "ok" THEN UserCatch(q2, "LogFailure")
                        ELSE Finish(Respond(q2, IF route = "userCreate" THEN 201 ELSE 200))]
    /\ UNCHANGED <<Storage, Pools, started, loggerFails>>

(* GET /api/databases/:dbName/users *)
UserListBegin(r) == UserBegin(r, "userList")

UserListExistsResolves(r) == UserExistsResolves(r, "userList")

UserListQueryResolves(r) == UserQueryResolves(r, "userList")

(* GET /api/databases/:dbName/users/:id *)
UserGetBegin(r) == UserBegin(r, "userGet")

UserGetExistsResolves(r) == UserExistsResolves(r, "userGet")

UserGetQueryResolves(r) == UserQueryResolves(r, "userGet")

(* POST /api/databases/:dbName/users *)
UserCreateBegin(r) == UserBeginValidated(r, "userCreate")

UserCreateExistsResolves(r) == UserExistsResolves(r, "userCreate")

UserCreateQueryResolves(r) == UserQueryResolves(r, "userCreate")

(* PUT /api/databases/:dbName/users/:id *)
UserUpdateBegin(r) == UserBeginValidated(r, "userUpdate")

UserUpdateExistsResolves(r) == UserExistsResolves(r, "userUpdate")

UserUpdateQueryResolves(r) == UserQueryResolves(r, "userUpdate")

(* DELETE /api/databases/:dbName/users/:id *)
UserDeleteBegin(r) == UserBegin(r, "userDelete")

UserDeleteExistsResolves(r) == UserExistsResolves(r, "userDelete")

UserDeleteQueryResolves(r) == UserQueryResolves(r, "userDelete")

(* ---------------------------------------------------------------------- *)
(* GET /api/health and GET /api/logs: no await, one segment each.          *)
(* ---------------------------------------------------------------------- *)
Health(r) ==
    /\ CanStart(r)
    /\ req' = [req EXCEPT ![r] = Finish(Respond(NewReq("health", NoName, NoName), 200))]
    /\ started' = started + 1
    /\ UNCHANGED <<Storage, Pools, loggerFails>>

Logs(r) ==
    /\ CanStart(r)
    /\ \E lo \in LogOutcomes :
         LET q == NewReq("logs", NoName, NoName)
         IN  req' = [req EXCEPT ![r] =
                        IF lo = "ok" THEN Finish(Respond(q, 200))
                        ELSE Finish(Respond([q EXCEPT !.err = "LogFailure"], 500))]
    /\ started' = started + 1
    /\ UNCHANGED <<Storage, Pools, loggerFails>>

(* The handler of slot r has ended: its invocation is released and the     *)
(* slot can take another request.                                          *)
Release(r) ==
    /\ Ended(r)
    /\ req' = [req EXCEPT ![r] = Idle]
    /\ UNCHANGED <<Storage, Pools, started, loggerFails>>

(* The steps of the request in slot r. *)
Step(r) ==
    \/ Health(r)
    \/ Logs(r)
    \/ ListBegin(r)
    \/ ListResolves(r)
    \/ CreateBegin(r)
    \/ CreateDatabaseResolves(r)
    \/ CreateInitResolves(r)
    \/ ExistsBegin(r)
    \/ ExistsResolves(r)
    \/ InitializeBegin(r)
    \/ InitializeExistsResolves(r)
    \/ InitializeInitResolves(r)
    \/ ExportBegin(r)
    \/ ExportExistsResolves(r)
    \/ ExportResolves(r)
    \/ MigrateBegin(r)
    \/ MigrateSourceResolves(r)
    \/ MigrateTargetResolves(r)
    \/ MigrateResolves(r)
    \/ UserListBegin(r)
    \/ UserListExistsResolves(r)
    \/ UserListQueryResolves(r)
    \/ UserGetBegin(r)
    \/ UserGetExistsResolves(r)
    \/ UserGetQueryResolves(r)
    \/ UserCreateBegin(r)
    \/ UserCreateExistsResolves(r)
    \/ UserCreateQueryResolves(r)
    \/ UserUpdateBegin(r)
    \/ UserUpdateExistsResolves(r)
    \/ UserUpdateQueryResolves(r)
    \/ UserDeleteBegin(r)
    \/ UserDeleteExistsResolves(r)
    \/ UserDeleteQueryResolves(r)
    \/ Release(r)

Next == \E r \in Reqs : Step(r)

Spec == Init /\ [][Next]_vars

SpecLoggerFails == InitLoggerFails /\ [][Next]_vars

(* ---------------------------------------------------------------------- *)
(* Vocabulary of the properties.                                           *)
(* ---------------------------------------------------------------------- *)
(* The name contains a quote, a space or a semicolon. *)
HasUnsafeChar(name) ==
    \E i \in 1..Len(name) : name[i] \in {"'", "\"", " ", ";"}

Finished(q) == q.pc \in {"done", "rejected"}

InFlight(q) == q.pc \notin {"idle", "done", "rejected"}

Ops(q) == {q.calls[i].op : i \in DOMAIN q.calls}

CallOf(q, op) == {i \in DOMAIN q.calls : q.calls[i].op = op}

UserRoutes == {"userList", "userGet", "userCreate", "userUpdate", "userDelete"}

RegistryRoutes == {"list", "create", "exists", "initialize", "export", "migrate"}

NamesOf(q) == {q.name, q.target}

ExistsCall(name, res) ==
    [op |-> "databaseExists", arg |-> name, arg2 |-> NoName, res |-> res, stmt |-> TRUE]

(* The createDatabase call of request q created the schema. *)
CreatedBy(q) ==
    /\ q.route = "create"
    /\ \E i \in CallOf(q, "createDatabase") : q.calls[i].res = "ok"

(* ---------------------------------------------------------------------- *)
(* C1                                                                      *)
(* ---------------------------------------------------------------------- *)

(* C1: in a migrate request, migrateDatabase(source, target) is the third  *)
(* db call, made after databaseExists(source) and then                     *)
(* databaseExists(target) both returned true in that request; when a check *)
(* returns false the request is answered 404 and never calls               *)
(* migrateDatabase; a migrate request never calls createDatabase or        *)
(* initDatabase.                                                           *)
C1_MigrateOnlyAfterBothExist ==
    \A r \in Reqs :
        LET q == req[r]
        IN  q.route = "migrate" =>
              /\ \A i \in CallOf(q, "migrateDatabase") :
                    /\ i = 3
                    /\ q.calls[1] = ExistsCall(q.name, "true")
                    /\ q.calls[2] = ExistsCall(q.target, "true")
                    /\ q.calls[3].arg = q.name
                    /\ q.calls[3].arg2 = q.target
              /\ (\E i \in DOMAIN q.calls : q.calls[i].res = "false") =>
                    /\ q.pc = "done"
                    /\ q.status = 404
                    /\ q.responses = 1
                    /\ CallOf(q, "migrateDatabase") = {}
              /\ Ops(q) \cap {"createDatabase", "initDatabase"} = {}

(* Two migrate requests side by side: one migrated after both checks, the  *)
(* other was refused because its target, a well-formed name, is missing.   *)
C1_Witness ==
    \E r1 \in Reqs, r2 \in Reqs :
        /\ req[r1].route = "migrate" /\ req[r1].pc = "done" /\ req[r1].status = 200
        /\ CallOf(req[r1], "migrateDatabase") = {3}
        /\ req[r2].route = "migrate" /\ req[r2].pc = "done" /\ req[r2].status = 404
        /\ Len(req[r2].calls) = 2
        /\ req[r2].calls[1].res = "true" /\ req[r2].calls[2].res = "false"
        /\ ValidIdentifier(req[r2].target)
        /\ req[r2].target \notin schemas

(* ---------------------------------------------------------------------- *)
(* C2                                                                      *)
(* ---------------------------------------------------------------------- *)

(* C2 as stated: two finished create requests for the same valid name n,   *)
(* which did not exist before them, leave exactly one created schema,      *)
(* exactly one 201 and exactly one AlreadyExists failure.                  *)
C2_ExactlyOneCreatedAndAnswered201 ==
    \A r1 \in Reqs, r2 \in Reqs :
        LET q1 == req[r1]
            q2 == req[r2]
        IN  ( /\ r1 < r2
              /\ q1.route = "create" /\ q2.route = "create"
              /\ q1.name = q2.name /\ ValidIdentifier(q1.name)
              /\ Finished(q1) /\ Finished(q2)
              /\ q1.name \notin schemas \/ CreatedBy(q1) \/ CreatedBy(q2) )
            => /\ q1.name \in schemas
               /\ Cardinality({q \in {q1, q2} : CreatedBy(q)}) = 1
               /\ Cardinality({q \in {q1, q2} : q.status = 201}) = 1
               /\ Cardinality({q \in {q1, q2} : q.err = "AlreadyExists"}) = 1

(* C2 amended: of two create requests for the same valid name at most one  *)
(* has its createDatabase succeed; once one has, the other's               *)
(* createDatabase fails with AlreadyExists unless storage fails; a request *)
(* answers 201 exactly when its own createDatabase and initDatabase both   *)
(* succeeded, so at most one does.                                         *)
C2_AtMostOneCreatedAndAnswered201 ==
    \A r1 \in Reqs, r2 \in Reqs :
        LET q1 == req[r1]
            q2 == req[r2]
        IN  ( /\ r1 # r2
              /\ q1.route = "create" /\ q2.route = "create"
              /\ q1.name = q2.name /\ ValidIdentifier(q1.name) )
            => /\ ~(CreatedBy(q1) /\ CreatedBy(q2))
               /\ ~(q1.status = 201 /\ q2.status = 201)
               /\ q1.status = 201 <=>
                     /\ CreatedBy(q1)
                     /\ \E i \in CallOf(q1, "initDatabase") : q1.calls[i].res = "ok"
               /\ (CreatedBy(q1) /\ q2.calls # << >>) =>
                     /\ q2.calls[1].res \in {"AlreadyExists", "StorageUnavailable"}
                     /\ Ops(q2) = {"createDatabase"}
                     /\ Finished(q2)
                     /\ q2.err = q2.calls[1].res
                     /\ (q2.responses = 1 /\ ~q2.logThrew) => q2.status = 400

(* Both requests are finished: one created the schema and answered 201,    *)
(* the other received AlreadyExists and answered 400.                      *)
C2_Witness ==
    \E r1 \in Reqs, r2 \in Reqs :
        /\ req[r1].route = "create" /\ req[r2].route = "create"
        /\ req[r1].name = req[r2].name
        /\ req[r1].pc = "done" /\ req[r1].status = 201 /\ CreatedBy(req[r1])
        /\ req[r2].pc = "done" /\ req[r2].status = 400
        /\ req[r2].err = "AlreadyExists"

(* ---------------------------------------------------------------------- *)
(* C3                                                                      *)
(* ---------------------------------------------------------------------- *)

C4_PoolOnlyForExistingSchema ==
    /\ \A r \in Reqs :
          LET q == req[r]
          IN  q.route \in UserRoutes =>
                /\ \A i \in CallOf(q, "getPoolForDatabase") \cup CallOf(q, "pool.query") :
                      /\ i > 1
                      /\ q.calls[1] = ExistsCall(q.name, "true")
                      /\ q.calls[i].arg = q.name
                /\ (q.calls # << >> /\ q.calls[1].res = "false") =>
                      /\ q.pc = "done"
                      /\ q.status = 404
                      /\ q.responses = 1
                      /\ Len(q.calls) = 1
                      /\ q.pool = 0
                /\ q.pool # 0 => q.name \in schemas
    /\ \A n \in ValidNames : poolCache[n] # 0 => n \in schemas
    /\ \A i \in DOMAIN poolsMade : poolsMade[i] \in schemas

(* A user request for a well-formed but missing schema was answered 404    *)
(* and left no pool behind, while another request holds a pool.            *)
C4_Witness ==
    \E r1 \in Reqs, r2 \in Reqs :
        /\ req[r1].route \in UserRoutes /\ req[r1].pc = "done"
        /\ req[r1].status = 404 /\ req[r1].calls[1].res = "false"
        /\ ValidIdentifier(req[r1].name)
        /\ poolCache[req[r1].name] = 0
        /\ req[r2].route \in UserRoutes /\ req[r2].pool # 0

(* ---------------------------------------------------------------------- *)
(* C5                                                                      *)
(* ---------------------------------------------------------------------- *)

(* C5: at most one pool object is ever constructed per schema name, and    *)
(* every request that took a pool for a name holds that one pool.          *)
C5_OnePoolPerSchema ==
    /\ \A n \in ValidNames :
          Cardinality({i \in DOMAIN poolsMade : poolsMade[i] = n}) <= 1
    /\ \A r \in Reqs :
          req[r].pool # 0 =>
             /\ req[r].pool = poolCache[req[r].name]
             /\ poolsMade[req[r].pool] = req[r].name

(* Two user requests for the same schema, not seen before, are both        *)
(* waiting for their statement and share the one pool made for it.         *)
C5_Witness ==
    /\ req[1].route \in UserRoutes /\ req[2].route \in UserRoutes
    /\ req[1].name = req[2].name
    /\ req[1].pc = "awaitQuery" /\ req[2].pc = "awaitQuery"
    /\ req[1].pool # 0 /\ req[1].pool = req[2].pool
    /\ poolsMade = <<req[1].name>>

(* ---------------------------------------------------------------------- *)
(* C6                                                                      *)
(* ---------------------------------------------------------------------- *)
StatusOf(err) ==
    IF err \in {"InvalidIdentifier", "AlreadyExists"} THEN 400
    ELSE IF err = "UnknownSchema" THEN 404
    ELSE 500

(* C6 as stated: a request that ended in a failure is answered with the    *)
(* status of the failure's kind: 400 for InvalidIdentifier and             *)
(* AlreadyExists, 404 for UnknownSchema, 500 for every other failure.      *)
C6_StatusByFailureKind ==
    \A r \in Reqs :
        (req[r].pc = "done" /\ req[r].err # "none") => req[r].status = StatusOf(req[r].err)

(* ---------------------------------------------------------------------- *)
(* C7                                                                      *)
(* ---------------------------------------------------------------------- *)

(* C7 as stated: a request of a registry, table or migration route that    *)
(* invoked a db operation completes with a log event whose success flag is *)
(* the outcome: true on the success path, false on every failure path.     *)
C7_EventAfterEachOperation ==
    \A r \in Reqs :
        LET q == req[r]
        IN  (q.pc = "done" /\ q.route \in RegistryRoutes /\ q.calls # << >>) =>
              /\ q.events # << >>
              /\ q.events[Len(q.events)].success = (q.status < 400)

(* ---------------------------------------------------------------------- *)
(* C8                                                                      *)
(* ---------------------------------------------------------------------- *)

(* C8 as stated, on POST /api/databases: when createDatabase succeeded, a  *)
(* throwing logging call does not change what follows: initDatabase is     *)
(* still called, and the request answers 201 when it succeeds.             *)
C8_LoggingDoesNotDecideResult ==
    \A r \in Reqs :
        LET q == req[r]
        IN  (q.route = "create" /\ Finished(q) /\ CreatedBy(q) /\ q.logThrew) =>
              /\ CallOf(q, "initDatabase") # {}
              /\ (\E i \in CallOf(q, "initDatabase") : q.calls[i].res = "ok")
                    => (q.responses = 1 /\ q.status = 201)

(* ---------------------------------------------------------------------- *)
(* C9                                                                      *)
(* ---------------------------------------------------------------------- *)

(* C9 as stated: a request that saw databaseExists(n) = true and issued    *)
(* its statement on n's tables does so after initDatabase(n) completed,    *)
(* and a create request answered with a failure leaves no schema that it   *)
(* created.                                                                *)
C9_NeverPartiallyCreated ==
    \A r \in Reqs :
        LET q == req[r]
        IN  /\ q.pc \in {"awaitQuery", "awaitExport"} => q.name \in tables
            /\ q.pc = "awaitMigrate" => (q.name \in tables /\ q.target \in tables)
            /\ (q.route = "create" /\ q.pc = "done" /\ q.status >= 400 /\ CreatedBy(q))
                  => q.name \notin schemas

(* ---------------------------------------------------------------------- *)
(* C10                                                                     *)
(* ---------------------------------------------------------------------- *)

(* C10: with logging calls that return, a request is never answered twice, *)
(* a request in flight is not answered yet and has a next step (its        *)
(* awaited operation can return or throw), a handler that has returned     *)
(* has answered exactly once, no handler ends unanswered, and no db        *)
(* operation is invoked after the response.                                *)
C10_ExactlyOneResponse ==
    \A r \in Reqs :
        LET q == req[r]
        IN  /\ q.responses <= 1
            /\ ~q.late
            /\ q.pc # "rejected"
            /\ q.pc = "done" => q.responses = 1
            /\ InFlight(q) => (q.responses = 0 /\ ENABLED Step(r))

(* An update answered 404 for a missing user after three db calls, and a   *)
(* migrate answered 500 from its catch block: one response each.           *)
C10_Witness ==
    \E r1 \in Reqs, r2 \in Reqs :
        /\ req[r1].route = "userUpdate" /\ req[r1].pc = "done"
        /\ req[r1].status = 404 /\ Len(req[r1].calls) = 3 /\ req[r1].responses = 1
        /\ req[r2].route = "migrate" /\ req[r2].pc = "done"
        /\ req[r2].err = "StorageUnavailable" /\ req[r2].status = 500
        /\ Len(req[r2].calls) = 3 /\ req[r2].responses = 1

====
